---- MODULE Spec2Model ----
(***************************************************************************)
(* A model of detect_person.py: a single-threaded script that opens a      *)
(* camera, runs a person detector on every frame and, on every presence    *)
(* transition, logs, saves a snapshot and raises a rate-limited desktop    *)
(* notification.                                                           *)
(*                                                                         *)
(* Time is the wall clock in microseconds (the resolution of '%f' and of   *)
(* time.time()).  The clock is read once per tick; time.time() and         *)
(* datetime.now() of the arrival branch are both that reading.  The log is *)
(* kept as the records written since the start of the current tick (or,    *)
(* before the first tick, since the script started).                       *)
(***************************************************************************)
EXTENDS Integers, Sequences, FiniteSets

VARIABLES
    pc,                          \* position of the script
    class_names,                 \* model.names, as the sequence of names by class id - 1
    model_loaded,                \* YOLO('yolov8n.pt') returned
    person_class_id,             \* 0 is None, otherwise class id + 1
    cap_opened,                  \* cap.isOpened()
    releases,                    \* number of cap.release() + destroyAllWindows() calls
    clock,                       \* wall clock, microseconds
    tick,                        \* number of frames read so far
    nboxes,                      \* len(results[0].boxes) of the current tick
    person_detected_current_frame,
    person_detected_previously,
    last_notification_time,
    annotated_frame,             \* 0 is unbound, otherwise the tick whose frame it annotates
    display_frame,               \* what imshow was last given: <<kind, tick>>
    photo_dir,                   \* the snapshot files on disk: file name -> tick that wrote it
    log,                         \* log records of the current tick
    event,                       \* presence event of the current tick
    snapshot,                    \* how the snapshot of the current tick went
    arrivals,                    \* history: one record per Arrived event
    frames,                      \* history: the detection result of every tick
    events,                      \* history: the presence event of every tick
    steady                       \* history: every tick so far came one second after the last

vars == <<pc, class_names, model_loaded, person_class_id, cap_opened, releases,
          clock, tick, nboxes, person_detected_current_frame,
          person_detected_previously, last_notification_time, annotated_frame,
          display_frame, photo_dir, log, event, snapshot, arrivals, frames,
          events, steady>>

----------------------------------------------------------------------------
(* Bounds of the model                                                     *)

MaxTicks == 5

(* Program constants                                                       *)

notification_cooldown == 15
Second == 1000000

Cooldown == notification_cooldown * Second

(* The numbers of boxes an inference may return.                           *)
BoxCounts == { 0, 2 }

(* The label sets the detector may come with.                              *)
LabelSets == { <<"car", "person">>, <<"car">>, <<>> }

(* How far the wall clock moves between two frame reads: less than a      *)
(* millisecond, a second, or the whole cooldown.                           *)
ClockSteps == { 300, Second, Cooldown }

(* The wall clock when the script starts: at its origin, or later than one *)
(* cooldown after it.                                                      *)
ClockStarts == { 0, Cooldown + Second }

SnapshotOutcomes == { "saved", "plot_raises", "imwrite_raises", "imwrite_false" }

----------------------------------------------------------------------------
(* Helpers                                                                 *)

Info(text)    == << <<"INFO", text, 0>> >>
Warning(text) == << <<"WARNING", text, 0>> >>
Error(text)   == << <<"ERROR", text, 0>> >>

CountText(s, text) == Cardinality({ i \in 1..Len(s) : s[i][2] = text })

(* for class_id, class_name in class_names.items(): first id named person  *)
FindPerson(names) ==
    IF \E i \in 1..Len(names) : names[i] = "person"
    THEN CHOOSE i \in 1..Len(names) :
            /\ names[i] = "person"
            /\ \A j \in 1..(i - 1) : names[j] # "person"
    ELSE 0

(* strftime('%Y%m%d_%H%M%S_%f'): the whole second, then six digits of       *)
(* microseconds.                                                           *)
strftime(t) ==
    LET us == t % Second
    IN  << t \div Second,
           (us \div 100000) % 10, (us \div 10000) % 10, (us \div 1000) % 10,
           (us \div 100) % 10, (us \div 10) % 10, us % 10 >>

(* Variant: the timestamp stops at the whole second.                       *)
timestamp_str_seconds(t) == SubSeq(strftime(t), 1, 1)

(* strftime(...)[:-3]                                                      *)
timestamp_str(t) == SubSeq(strftime(t), 1, Len(strftime(t)) - 3)

(* os.path.join(photo_dir, f"person_{timestamp_str}.jpg")                  *)
photo_filename(ts) == <<"detected_persons", "person_">> \o ts \o <<".jpg">>

(* if results and len(results[0].boxes) > 0                                *)
PersonDetected(n) == n > 0

(* Level-triggered variant: the previous state is not consulted.           *)
IsArrival_level(cur, prev) == cur

(* if person_detected_current_frame and not person_detected_previously     *)
IsArrival(cur, prev) == cur /\ ~prev

(* Level-triggered variant: the previous state is not consulted.           *)
IsDeparture_level(cur, prev) == ~cur

(* elif not person_detected_current_frame and person_detected_previously   *)
IsDeparture(cur, prev) == ~cur /\ prev

(* Variant: the cooldown in seconds is compared with microseconds.         *)
CooldownElapsed_units(now, last) == now - last > notification_cooldown

(* if current_time - last_notification_time > notification_cooldown        *)
CooldownElapsed(now, last) == now - last > Cooldown

(* last_notification_time = current_time, reached only when notify returns *)
NextNotificationTime(last, now, gate_open, notify_ok) ==
    IF gate_open /\ notify_ok THEN now ELSE last

(* logging.info(f"detected ({len(results[0].boxes)} targets)")             *)
ArrivedLog(n) == << <<"INFO", "person_detected", n>> >>

(* results[0].plot() or cv2.imwrite raises                                 *)
SnapshotRaises(snap) == snap \in {"plot_raises", "imwrite_raises"}

(* Variant: the notification block has no handler.                         *)
Caught_not_notification(site) == site \in {"snapshot", "display"}

(* Variant: the snapshot block has no handler.                             *)
Caught_not_snapshot(site) == site \in {"notification", "display"}

(* "except Exception as e" at the snapshot, the notification and the       *)
(* display: each catches whatever its try block raises.                    *)
Caught(site) == site \in {"snapshot", "notification", "display"}

(* the try/except around plot and imwrite; imwrite returning False is not  *)
(* looked at                                                               *)
SnapshotLog(snap) ==
    IF SnapshotRaises(snap)
    THEN Error("save_photo_failed")
    ELSE Info("photo_saved")

(* annotated_frame = results[0].plot()                                     *)
NextAnnotatedFrame(old, snap, t) == IF snap = "plot_raises" THEN old ELSE t

(* cv2.imwrite(photo_filename, annotated_frame)                            *)
WritePhoto(dir, file, snap, t) ==
    IF snap = "saved"
    THEN { p \in dir : p[1] # file } \cup { <<file, t>> }
    ELSE dir

(* the cooldown branch: notify inside try/except, or the skip record       *)
NotificationLog(gate_open, notify_ok) ==
    IF gate_open
    THEN IF notify_ok THEN Info("notification_sent") ELSE Error("notification_failed")
    ELSE Info("notification_skipped_cooldown")

(* Variant: the arrival record and the snapshot record are written only    *)
(* when the cooldown lets the notification through.                        *)
ArrivalRecords_gated(n, snap, gate_open, notify_ok) ==
    IF gate_open
    THEN ArrivedLog(n) \o SnapshotLog(snap) \o NotificationLog(gate_open, notify_ok)
    ELSE NotificationLog(gate_open, notify_ok)

(* what the arrival branch logs when nothing escapes it: the arrival, the  *)
(* snapshot outcome, the notification outcome                              *)
ArrivalRecords(n, snap, gate_open, notify_ok) ==
    ArrivedLog(n) \o SnapshotLog(snap) \o NotificationLog(gate_open, notify_ok)

(* Variant: the departure branch also writes the cooldown skip record.     *)
DepartedLog_noisy == Info("person_left") \o Info("notification_skipped_cooldown")

(* logging.info("person left")                                             *)
DepartedLog == Info("person_left")

(* Variant: a failed read is retried.                                      *)
AfterRead_retry(ret) == IF ret THEN "detect" ELSE "read"

(* if not ret: warning, break                                              *)
AfterRead(ret) == IF ret THEN "detect" ELSE "cleanup"

(* Variant: the exit key is ignored.                                       *)
AfterPoll_ignored(q) == "read"

(* if cv2.waitKey(1) & 0xFF == ord('q'): break                             *)
AfterPoll(q) == IF q THEN "cleanup" ELSE "read"

(* except Exception: logging.error(...); exit()                            *)
AfterLoadModel(ok) == IF ok THEN "find_class" ELSE "aborted"

(* Variant: the class lookup result is not checked.                        *)
AfterFindClass_unchecked(id) == "open_camera"

(* if person_class_id is None: logging.error(...); exit()                  *)
AfterFindClass(id) == IF id = 0 THEN "aborted" ELSE "open_camera"

(* if not cap.isOpened(): logging.error(...); exit()                       *)
AfterOpenCamera(opened) == IF opened THEN "read" ELSE "aborted"

----------------------------------------------------------------------------
(* Initial state: the script has configured logging and the photo folder.  *)

Init ==
    /\ pc = "load_model"
    /\ class_names \in LabelSets
    /\ model_loaded = FALSE
    /\ person_class_id = 0
    /\ cap_opened = FALSE
    /\ releases = 0
    /\ clock \in ClockStarts
    /\ tick = 0
    /\ nboxes = 0
    /\ person_detected_current_frame = FALSE
    /\ person_detected_previously = FALSE
    /\ last_notification_time = 0
    /\ annotated_frame = 0
    /\ display_frame = <<"none", 0>>
    /\ photo_dir = {}
    /\ log = Info("script_start") \o Info("photo_dir")
    /\ event = "none"
    /\ snapshot = "none"
    /\ arrivals = <<>>
    /\ frames = <<>>
    /\ events = <<>>
    /\ steady = TRUE

----------------------------------------------------------------------------
(* Initialisation                                                          *)

LoadModel(ok) ==
    /\ pc = "load_model"
    /\ model_loaded' = ok
    /\ log' = log \o (IF ok THEN Info("model_loaded") ELSE Error("model_load_failed"))
    /\ pc' = AfterLoadModel(ok)
    /\ UNCHANGED <<class_names, person_class_id, cap_opened, releases, clock, tick,
                   nboxes, person_detected_current_frame, person_detected_previously,
                   last_notification_time, annotated_frame, display_frame, photo_dir,
                   event, arrivals, frames, events, steady, snapshot>>

FindClass ==
    /\ pc = "find_class"
    /\ person_class_id' = FindPerson(class_names)
    /\ log' = log \o (IF person_class_id' = 0 THEN Error("no_person_class")
                                              ELSE Info("target_class"))
    /\ pc' = AfterFindClass(person_class_id')
    /\ UNCHANGED <<class_names, model_loaded, cap_opened, releases, clock, tick,
                   nboxes, person_detected_current_frame, person_detected_previously,
                   last_notification_time, annotated_frame, display_frame, photo_dir,
                   event, arrivals, frames, events, steady, snapshot>>

OpenCamera(opened) ==
    /\ pc = "open_camera"
    /\ cap_opened' = opened
    /\ log' = log \o (IF opened
                      THEN Info("camera_opened") \o Info("monitoring_started") \o Info("press_q")
                      ELSE Error("camera_open_failed"))
    /\ pc' = AfterOpenCamera(opened)
    /\ UNCHANGED <<class_names, model_loaded, person_class_id, releases, clock, tick,
                   nboxes, person_detected_current_frame, person_detected_previously,
                   last_notification_time, annotated_frame, display_frame, photo_dir,
                   event, arrivals, frames, events, steady, snapshot>>

----------------------------------------------------------------------------
(* One tick of the main loop                                               *)

ReadFrame(ret, step) ==
    /\ pc = "read"
    /\ ret => tick < MaxTicks
    /\ clock' = clock + step
    /\ tick' = IF ret THEN tick + 1 ELSE tick
    /\ log' = IF ret THEN <<>> ELSE Warning("cannot_read_frame")
    /\ event' = "none"
    /\ snapshot' = "none"
    /\ steady' = (steady /\ (ret => tick = 0 \/ step = Second))
    /\ pc' = AfterRead(ret)
    /\ UNCHANGED <<class_names, model_loaded, person_class_id, cap_opened, releases,
                   nboxes, person_detected_current_frame, person_detected_previously,
                   last_notification_time, annotated_frame, display_frame, photo_dir,
                   arrivals, frames, events>>

(* results = model(frame, classes=[person_class_id], conf=threshold)       *)
Inference(n) ==
    /\ nboxes' = n
    /\ person_detected_current_frame' = PersonDetected(n)
    /\ frames' = Append(frames, PersonDetected(n))

Arrived(n, snap, notify_ok) ==
    /\ pc = "detect"
    /\ Inference(n)
    /\ IsArrival(PersonDetected(n), person_detected_previously)
    /\ LET current_time == clock
           file == photo_filename(timestamp_str(clock))
           gate_open == CooldownElapsed(current_time, last_notification_time)
           snap_escapes == SnapshotRaises(snap) /\ ~Caught("snapshot")
           notify_escapes == gate_open /\ ~notify_ok /\ ~Caught("notification")
       IN  /\ gate_open \/ notify_ok
           /\ annotated_frame' = NextAnnotatedFrame(annotated_frame, snap, tick)
           /\ photo_dir' = WritePhoto(photo_dir, file, snap, tick)
           /\ IF snap_escapes
              THEN /\ log' = log \o ArrivedLog(n)
                   /\ arrivals' = Append(arrivals,
                          [time |-> current_time, tick |-> tick, file |-> file,
                           saved |-> FALSE, gate_open |-> FALSE, notified |-> FALSE])
                   /\ pc' = "crashed"
                   /\ UNCHANGED <<last_notification_time, person_detected_previously>>
              ELSE /\ arrivals' = Append(arrivals,
                          [time |-> current_time, tick |-> tick, file |-> file,
                           saved |-> (snap = "saved"), gate_open |-> gate_open,
                           notified |-> gate_open /\ notify_ok])
                   /\ IF notify_escapes
                      THEN /\ log' = log \o ArrivedLog(n) \o SnapshotLog(snap)
                           /\ pc' = "crashed"
                           /\ UNCHANGED <<last_notification_time,
                                          person_detected_previously>>
                      ELSE /\ log' = log \o ArrivalRecords(n, snap, gate_open, notify_ok)
                           /\ last_notification_time' =
                                  NextNotificationTime(last_notification_time,
                                                       current_time, gate_open, notify_ok)
                           /\ person_detected_previously' = TRUE
                           /\ pc' = "render"
    /\ event' = "Arrived"
    /\ snapshot' = snap
    /\ events' = Append(events, "Arrived")
    /\ UNCHANGED <<class_names, model_loaded, person_class_id, cap_opened, releases,
                   clock, tick, display_frame, steady>>

Departed(n) ==
    /\ pc = "detect"
    /\ Inference(n)
    /\ ~IsArrival(PersonDetected(n), person_detected_previously)
    /\ IsDeparture(PersonDetected(n), person_detected_previously)
    /\ log' = log \o DepartedLog
    /\ person_detected_previously' = FALSE
    /\ event' = "Departed"
    /\ events' = Append(events, "Departed")
    /\ pc' = "render"
    /\ UNCHANGED <<class_names, model_loaded, person_class_id, cap_opened, releases,
                   clock, tick, last_notification_time, annotated_frame,
                   display_frame, photo_dir, arrivals, steady, snapshot>>

NoEvent(n) ==
    /\ pc = "detect"
    /\ Inference(n)
    /\ ~IsArrival(PersonDetected(n), person_detected_previously)
    /\ ~IsDeparture(PersonDetected(n), person_detected_previously)
    /\ events' = Append(events, "none")
    /\ pc' = "render"
    /\ UNCHANGED <<class_names, model_loaded, person_class_id, cap_opened, releases,
                   clock, tick, person_detected_previously, last_notification_time,
                   annotated_frame, display_frame, photo_dir, log, event, arrivals,
                   steady, snapshot>>

(* display_frame = annotated_frame raises NameError while annotated_frame  *)
(* is unbound; imshow may raise; both end in the except branch.            *)
Render(imshow_ok) ==
    /\ pc = "render"
    /\ LET chosen == IF person_detected_current_frame
                     THEN <<"annotated", annotated_frame>>
                     ELSE <<"raw", tick>>
           bound == ~person_detected_current_frame \/ annotated_frame # 0
           raised == ~(bound /\ imshow_ok)
       IN  /\ bound \/ imshow_ok
           /\ display_frame' = IF bound THEN chosen ELSE display_frame
           /\ log' = IF raised /\ Caught("display")
                     THEN log \o Error("display_failed") ELSE log
           /\ pc' = IF raised /\ ~Caught("display") THEN "crashed" ELSE "poll"
    /\ UNCHANGED <<class_names, model_loaded, person_class_id, cap_opened, releases,
                   clock, tick, nboxes, person_detected_current_frame,
                   person_detected_previously, last_notification_time, annotated_frame,
                   photo_dir, event, arrivals, frames, events, steady, snapshot>>

PollKey(q) ==
    /\ pc = "poll"
    /\ log' = IF q THEN log \o Info("quit_key") ELSE log
    /\ pc' = AfterPoll(q)
    /\ UNCHANGED <<class_names, model_loaded, person_class_id, cap_opened, releases,
                   clock, tick, nboxes, person_detected_current_frame,
                   person_detected_previously, last_notification_time, annotated_frame,
                   display_frame, photo_dir, event, arrivals, frames, events, steady, snapshot>>

Cleanup ==
    /\ pc = "cleanup"
    /\ releases' = releases + 1
    /\ log' = log \o Info("camera_released") \o Info("script_end")
    /\ pc' = "done"
    /\ UNCHANGED <<class_names, model_loaded, person_class_id, cap_opened,
                   clock, tick, nboxes, person_detected_current_frame,
                   person_detected_previously, last_notification_time, annotated_frame,
                   display_frame, photo_dir, event, arrivals, frames, events, steady, snapshot>>

Next ==
    \/ \E ok \in BOOLEAN : LoadModel(ok)
    \/ FindClass
    \/ \E opened \in BOOLEAN : OpenCamera(opened)
    \/ \E ret \in BOOLEAN, step \in ClockSteps : ReadFrame(ret, step)
    \/ \E n \in BoxCounts, snap \in SnapshotOutcomes, notify_ok \in BOOLEAN :
            Arrived(n, snap, notify_ok)
    \/ \E n \in BoxCounts : Departed(n)
    \/ \E n \in BoxCounts : NoEvent(n)
    \/ \E imshow_ok \in BOOLEAN : Render(imshow_ok)
    \/ \E q \in BOOLEAN : PollKey(q)
    \/ Cleanup

Spec == Init /\ [][Next]_vars

(* The script is one sequential thread: whatever statement is next runs.   *)
FairSpec == Spec /\ WF_vars(Next)

----------------------------------------------------------------------------
(* Derived views of the histories                                          *)

Running == pc \in {"read", "detect", "render", "poll"}
EventLogCount(s) == CountText(s, "person_detected") + CountText(s, "person_left")
EventCount == Cardinality({ i \in 1..Len(events) : events[i] # "none" })
ConstantRun == \A i \in 1..Len(frames) : frames[i] = frames[1]

----------------------------------------------------------------------------
(* C1: on every tick, Arrived is emitted exactly when a person is detected *)
(* while the presence state is Absent, and makes it Present; Departed is   *)
(* emitted exactly when nobody is detected while the state is Present, and *)
(* makes it Absent; any other tick emits nothing and keeps the state; a    *)
(* tick logs at most one event, and a constant run of detections yields at *)
(* most one event, whatever its length.                                    *)
C1_TickRule ==
    pc = "detect" /\ pc' = "render" =>
        LET detected == person_detected_current_frame'
            present  == person_detected_previously
        IN  /\ (event' = "Arrived") <=> (detected /\ ~present)
            /\ (event' = "Departed") <=> (~detected /\ present)
            /\ event' = "Arrived" => person_detected_previously'
            /\ event' = "Departed" => ~person_detected_previously'
            /\ event' = "none" =>
                   /\ person_detected_previously' = person_detected_previously
                   /\ log' = log
            /\ EventLogCount(log') = (IF event' = "none" THEN 0 ELSE 1)

(* C1, over whole behaviours: the tick rule on every step, the initial     *)
(* state Absent, and at most one event in a constant run.                  *)
C1_PresenceEvents ==
    /\ [][C1_TickRule]_vars
    /\ [](tick = 0 => ~person_detected_previously /\ events = <<>>)
    /\ [](ConstantRun => EventCount <= 1)

C1_Witness ==
    /\ Len(events) >= 4
    /\ SubSeq(events, 1, 4) = <<"Arrived", "none", "Departed", "none">>
    /\ frames = <<TRUE, TRUE, FALSE, FALSE>>

----------------------------------------------------------------------------
(* The cooldown gate lets a notification through at arrival i.             *)
GatePassed(i) == arrivals[i].gate_open
Delivered(i)  == arrivals[i].notified
Within(i, j)  ==
    /\ arrivals[i].time < arrivals[j].time
    /\ arrivals[j].time - arrivals[i].time <= Cooldown

(* C2: of any two gate decisions taken at times t1 < t2 with               *)
(* t2 - t1 <= cooldown, at most one lets the notification through, also    *)
(* when a delivery fails.                                                  *)
C2_OnePassPerWindow ==
    \A i, j \in 1..Len(arrivals) :
        Within(i, j) => ~(GatePassed(i) /\ GatePassed(j))

----------------------------------------------------------------------------
LastArrival == arrivals[Len(arrivals)]
SnapshotRecords == {"photo_saved", "save_photo_failed"}
AttemptRecords == {"notification_sent", "notification_failed"}

(* C3: every Arrived event writes the arrival log record and attempts the  *)
(* snapshot, and every Departed event writes its log record, whether the   *)
(* cooldown lets the notification through or suppresses it.                *)
C3_DurableRecords ==
    pc = "render" =>
        /\ event = "Arrived" =>
               /\ Len(log) = 3
               /\ log[1] = <<"INFO", "person_detected", nboxes>>
               /\ log[2][2] \in SnapshotRecords
               /\ LastArrival.saved => <<LastArrival.file, tick>> \in photo_dir
               /\ log[3][2] = "notification_skipped_cooldown" <=> ~LastArrival.gate_open
        /\ event = "Departed" => log = << <<"INFO", "person_left", 0>> >>

C3_Witness ==
    /\ pc = "render"
    /\ event = "Arrived"
    /\ ~LastArrival.gate_open
    /\ \E i \in 1..Len(arrivals) : arrivals[i].notified
    /\ log[1][2] = "person_detected"
    /\ log[2][2] = "photo_saved"

(* C4: when the snapshot fails on an Arrived event, the arrival record is  *)
(* already in the log, the cooldown comparison is still made and the       *)
(* notification still attempted when it allows, the presence state becomes *)
(* Present and the loop goes on to render.                                 *)
C4_TickRule ==
    (pc = "detect" /\ event' = "Arrived" /\ snapshot' # "saved") =>
        /\ Len(log') = 3
        /\ log'[1][2] = "person_detected"
        /\ SnapshotRaises(snapshot') => log'[2] = <<"ERROR", "save_photo_failed", 0>>
        /\ IF CooldownElapsed(clock, last_notification_time)
           THEN log'[3][2] \in AttemptRecords
           ELSE log'[3][2] = "notification_skipped_cooldown"
        /\ person_detected_previously'
        /\ pc' = "render"

(* C4: the rule above holds on every step.                                 *)
C4_SnapshotFailSoft == [][C4_TickRule]_vars

C4_Witness ==
    /\ pc = "poll"
    /\ event = "Arrived"
    /\ snapshot = "imwrite_raises"
    /\ log[2] = <<"ERROR", "save_photo_failed", 0>>
    /\ log[3][2] \in AttemptRecords
    /\ person_detected_previously

----------------------------------------------------------------------------
IsPrefix(s, t) == Len(s) <= Len(t) /\ s = SubSeq(t, 1, Len(s))
AllDelivered == \A i \in 1..Len(arrivals) : GatePassed(i) => Delivered(i)
AllSaved == \A i \in 1..Len(arrivals) : arrivals[i].saved
DeliveredCount == Cardinality({ i \in 1..Len(arrivals) : Delivered(i) })
DepartedCount == Cardinality({ i \in 1..Len(events) : events[i] = "Departed" })

(* C5: the first Arrived event of a session passes the cooldown gate,      *)
(* whatever the clock reads; with detections F F T T T F at one-second     *)
(* ticks the Arrived of tick 3 fires the notification.                     *)
C5_FirstArrivalFires ==
    /\ Len(arrivals) >= 1 => GatePassed(1)
    /\ (/\ steady
        /\ Len(events) >= 3
        /\ IsPrefix(frames, <<FALSE, FALSE, TRUE, TRUE, TRUE, FALSE>>))
       => /\ events[3] = "Arrived"
          /\ GatePassed(1)

(* C6: an Arrived event within the cooldown of the last notification time  *)
(* delivers nothing, logs the skip and leaves the last notification time   *)
(* as it was; with detections T F T F T at one-second ticks and working    *)
(* collaborators there are 3 Arrived, 2 Departed, 3 snapshots and exactly  *)
(* one delivered notification, the first.                                  *)
C6_Scenario ==
    (/\ steady
     /\ AllDelivered
     /\ AllSaved
     /\ pc \in {"render", "poll"}
     /\ IsPrefix(frames, <<TRUE, FALSE, TRUE, FALSE, TRUE>>))
    => /\ Delivered(1)
       /\ \A i \in 2..Len(arrivals) : ~Delivered(i)
       /\ Len(frames) = 5 =>
              /\ Len(arrivals) = 3
              /\ DepartedCount = 2
              /\ Cardinality(photo_dir) = 3
              /\ DeliveredCount = 1

C6_SuppressedRule ==
    (/\ pc = "detect"
     /\ event' = "Arrived"
     /\ \E i \in 1..Len(arrivals) : Delivered(i)
     /\ clock - last_notification_time <= Cooldown)
    => /\ ~LastArrival'.notified
       /\ log'[3] = <<"INFO", "notification_skipped_cooldown", 0>>
       /\ last_notification_time' = last_notification_time

(* C6: the suppression rule on every step and the scenario in every state. *)
C6_CooldownSuppresses == [][C6_SuppressedRule]_vars /\ []C6_Scenario

----------------------------------------------------------------------------
(* C7: a Departed event writes exactly one info record and nothing else:   *)
(* no snapshot, no notification attempt, no change of the last             *)
(* notification time.                                                      *)
C7_TickRule ==
    (pc = "detect" /\ event' = "Departed") =>
        /\ log = <<>>
        /\ Len(log') = 1
        /\ log'[1][1] = "INFO"
        /\ snapshot' = "none"
        /\ photo_dir' = photo_dir
        /\ annotated_frame' = annotated_frame
        /\ arrivals' = arrivals
        /\ last_notification_time' = last_notification_time

(* C7: the rule above holds on every step.                                 *)
C7_DepartedOnlyLogs == [][C7_TickRule]_vars

C7_Witness ==
    /\ pc = "render"
    /\ event = "Departed"
    /\ last_notification_time > 0
    /\ photo_dir # {}
    /\ log = << <<"INFO", "person_left", 0>> >>

(* C8: a failed frame read writes a warning and leaves the loop at once:   *)
(* no inference, no event, no change of the presence state, no retry; no   *)
(* tick follows, and the cleanup releases the camera.                      *)
C8_ReadFailRule ==
    (pc = "read" /\ pc' # "detect") =>
        /\ pc' = "cleanup"
        /\ log' = << <<"WARNING", "cannot_read_frame", 0>> >>
        /\ event' = "none"
        /\ UNCHANGED <<tick, frames, events, arrivals, nboxes,
                       person_detected_previously, last_notification_time,
                       photo_dir, releases>>

C8_TerminatingRule ==
    (pc \in {"cleanup", "done"}) =>
        /\ pc' = "done"
        /\ releases = 0
        /\ releases' = 1
        /\ UNCHANGED <<tick, frames, events, arrivals, person_detected_previously>>

(* C8: both rules on every step, and the camera is released once the       *)
(* script has ended.                                                       *)
C8_ReadFailureTerminates ==
    /\ [][C8_ReadFailRule /\ C8_TerminatingRule]_vars
    /\ [](pc = "done" => releases = 1)

C8_Witness ==
    /\ pc = "done"
    /\ releases = 1
    /\ log[1] = <<"WARNING", "cannot_read_frame", 0>>
    /\ tick = 2
    /\ person_detected_previously

(* C9: the loop runs only with the model loaded, the person class found    *)
(* and the camera open; when one of the three fails the script logs an     *)
(* error and ends before any tick, with no frame read, no event and no     *)
(* side effect.                                                            *)
C9_InitOrAbort ==
    /\ (Running \/ tick > 0) =>
           model_loaded /\ person_class_id # 0 /\ cap_opened
    /\ (pc # "load_model" /\ ~model_loaded) => pc = "aborted"
    /\ (pc \notin {"load_model", "find_class"} /\ person_class_id = 0) => pc = "aborted"
    /\ (pc \notin {"load_model", "find_class", "open_camera"} /\ ~cap_opened)
           => pc = "aborted"
    /\ pc = "aborted" =>
           /\ log[Len(log)][1] = "ERROR"
           /\ tick = 0
           /\ frames = <<>>
           /\ events = <<>>
           /\ arrivals = <<>>
           /\ photo_dir = {}
           /\ display_frame = <<"none", 0>>
           /\ last_notification_time = 0

C9_Witness ==
    /\ pc = "aborted"
    /\ model_loaded
    /\ person_class_id = 0
    /\ log[Len(log)] = <<"ERROR", "no_person_class", 0>>

(* C10: any two Arrived events of a session get different snapshot file    *)
(* names, so a later snapshot never overwrites an earlier one.             *)
C10_UniqueFilenames ==
    \A i, j \in 1..Len(arrivals) :
        i < j => /\ arrivals[i].file # arrivals[j].file
                 /\ arrivals[i].saved => <<arrivals[i].file, arrivals[i].tick>> \in photo_dir

(* C10 as it holds: two Arrived events whose clock readings fall in        *)
(* different milliseconds, also within one second, get different file      *)
(* names, and a saved snapshot stays until an arrival of the same          *)
(* millisecond is saved over it.                                           *)
Millisecond(t) == t \div 1000
C10_UniquePerMillisecond ==
    \A i, j \in 1..Len(arrivals) :
        /\ (Millisecond(arrivals[i].time) # Millisecond(arrivals[j].time))
               <=> (arrivals[i].file # arrivals[j].file)
        /\ (/\ arrivals[i].saved
            /\ \A k \in (i + 1)..Len(arrivals) :
                   arrivals[k].saved =>
                       Millisecond(arrivals[k].time) # Millisecond(arrivals[i].time))
           => <<arrivals[i].file, arrivals[i].tick>> \in photo_dir

C10_Witness ==
    /\ Len(arrivals) = 2
    /\ arrivals[1].time \div Second = arrivals[2].time \div Second
    /\ Millisecond(arrivals[1].time) # Millisecond(arrivals[2].time)
    /\ arrivals[1].saved /\ arrivals[2].saved
    /\ Cardinality(photo_dir) = 2

----------------------------------------------------------------------------
(* C11: whenever the cooldown comparison lets an Arrived notification      *)
(* through, the last notification time becomes the time of that decision,  *)
(* whether the delivery then succeeds or fails.                            *)
C11_PassRecordsTime ==
    (pc \in {"render", "poll"} /\ event = "Arrived" /\ LastArrival.gate_open)
        => last_notification_time = LastArrival.time

----------------------------------------------------------------------------
(* imshow was called on the current tick: the frame to show was bound.     *)
ImshowCalled == ~person_detected_current_frame \/ annotated_frame # 0

(* C12: on every tick that reaches the display, the frame shown is the     *)
(* annotated frame of that same tick when a person was detected on it and  *)
(* the raw frame of that tick otherwise; a frame of an earlier tick is     *)
(* never shown.                                                            *)
C12_ShowsOwnFrame ==
    (pc = "poll" /\ ImshowCalled) =>
        display_frame =
            <<IF person_detected_current_frame THEN "annotated" ELSE "raw", tick>>

----------------------------------------------------------------------------
(* C13: on a tick whose detection result equals the presence state nothing *)
(* happens: no event record, no snapshot, no notification attempt, and the *)
(* presence state and the last notification time stay as they were.        *)
C13_TickRule ==
    (pc = "detect" /\ person_detected_current_frame' = person_detected_previously) =>
        /\ event' = "none"
        /\ snapshot' = "none"
        /\ log' = <<>>
        /\ UNCHANGED <<person_detected_previously, last_notification_time,
                       photo_dir, annotated_frame, arrivals>>

(* C13: the rule above holds on every step.                                *)
C13_NoChangeNoEffect == [][C13_TickRule]_vars

C13_Witness ==
    /\ pc = "render"
    /\ events = <<"Arrived", "none", "Departed", "none">>
    /\ log = <<>>
    /\ Len(arrivals) = 1
    /\ last_notification_time > 0

----------------------------------------------------------------------------
HasRecord(r) == \E i \in 1..Len(log) : log[i] = r
SnapshotFailed == snapshot \in {"plot_raises", "imwrite_raises", "imwrite_false"}
DeliveryFailed == LastArrival.gate_open /\ ~LastArrival.notified

(* C14: a failed snapshot, a failed delivery or a failed display never     *)
(* ends the session: each leaves an error record in the log, the tick goes *)
(* on to the key poll, and the next tick follows unless the exit key was   *)
(* pressed.                                                                *)
C14_ErrorRecords ==
    /\ pc # "crashed"
    /\ (pc \in {"render", "poll"} /\ event = "Arrived") =>
           /\ SnapshotFailed => HasRecord(<<"ERROR", "save_photo_failed", 0>>)
           /\ DeliveryFailed => HasRecord(<<"ERROR", "notification_failed", 0>>)
    /\ (pc = "poll" /\ ~ImshowCalled) => HasRecord(<<"ERROR", "display_failed", 0>>)

C14_TickGoesOn ==
    /\ pc = "detect" => pc' = "render"
    /\ pc = "render" => pc' = "poll"
    /\ pc = "poll" => pc' \in {"read", "cleanup"}
    /\ (pc = "poll" /\ pc' = "cleanup") => log'[Len(log')] = <<"INFO", "quit_key", 0>>

(* C14: the error records in every state, the progress of the tick on      *)
(* every step.                                                             *)
C14_FailSoft == []C14_ErrorRecords /\ [][C14_TickGoesOn]_vars

----------------------------------------------------------------------------
Terminating == pc \in {"cleanup", "done"}

(* C15: the exit key is polled once per tick, after the dispatch and the   *)
(* display; an exit request or a failed read leads to the cleanup, which   *)
(* releases the camera and the windows exactly once and logs the end of    *)
(* the session; no tick follows, and the cleanup is always completed.      *)
C15_PollRule ==
    /\ pc' = "poll" => pc = "render"
    /\ pc = "poll" =>
           /\ Len(events) = tick
           /\ pc' = (IF HasRecord(<<"INFO", "quit_key", 0>>)' THEN "cleanup" ELSE "read")
           /\ UNCHANGED <<tick, events, display_frame>>
    /\ pc' = "cleanup" => pc \in {"read", "poll", "cleanup"}

C15_TerminalRule ==
    Terminating =>
        /\ pc = "cleanup"
        /\ pc' = "done"
        /\ releases' = releases + 1
        /\ log'[Len(log')] = <<"INFO", "script_end", 0>>
        /\ UNCHANGED <<tick, frames, events, arrivals, display_frame, photo_dir>>

C15_Termination ==
    /\ [][C15_PollRule /\ C15_TerminalRule]_vars
    /\ [](releases = (IF pc = "done" THEN 1 ELSE 0))
    /\ (Terminating ~> (pc = "done"))

C15_Witness ==
    /\ pc = "done"
    /\ releases = 1
    /\ tick = 3
    /\ HasRecord(<<"INFO", "quit_key", 0>>)
    /\ log[Len(log)] = <<"INFO", "script_end", 0>>

----------------------------------------------------------------------------
(* C16: once a tick has passed the frame read and its branch, the presence *)
(* state equals the detection result of that tick, whether or not the      *)
(* snapshot, the notification or the display of the tick failed.           *)
C16_PresenceFollowsDetection ==
    (tick > 0 /\ Len(frames) = tick /\ pc # "detect") =>
        /\ person_detected_previously = frames[tick]
        /\ person_detected_previously = (nboxes > 0)

C16_Witness ==
    /\ pc = "read"
    /\ frames = <<TRUE, FALSE, TRUE>>
    /\ person_detected_previously
    /\ snapshot = "plot_raises"
    /\ DeliveryFailed
    /\ HasRecord(<<"ERROR", "display_failed", 0>>)

(* C17: any two delivered notifications of a session are more than the     *)
(* cooldown apart in clock time, however the detections flap and whatever  *)
(* deliveries fail in between.                                             *)
C17_DeliveriesApart ==
    \A i, j \in 1..Len(arrivals) :
        (i < j /\ Delivered(i) /\ Delivered(j)) =>
            arrivals[j].time - arrivals[i].time > Cooldown

C17_Witness ==
    /\ Len(arrivals) = 3
    /\ Delivered(1)
    /\ ~GatePassed(2)
    /\ Delivered(3)

====
